---- MODULE Spec2Model ----
(***************************************************************************)
(* Model of dataset.py: the OCRDataLoader input pipeline                   *)
(* (slices -> shuffle -> map(decode) -> ignore_errors -> batch ->          *)
(* map(_convert_label) -> repeat) and the decode-side helpers map_to_chars *)
(* and map_and_count.                                                      *)
(*                                                                         *)
(* A Python str is a sequence of code points, a TF string a sequence of    *)
(* UTF-8 bytes.  An image is opaque: the image of sample i is i.           *)
(***************************************************************************)
EXTENDS Integers, Sequences, FiniteSets

VARIABLES labels, bad, table, blank_index, batch_size, shuffle, repeat,
          orders, pos, epoch, out, done,
          call, ret

vars == <<labels, bad, table, blank_index, batch_size, shuffle, repeat,
          orders, pos, epoch, out, done, call, ret>>

(* ---------------------------- bounds ---------------------------------- *)
MaxSamples == 5
MaxShuffled == 2
MaxBatch == 3
MaxRepeat == 2

MaxLabelLen == 3
MaxLen == 4
MaxRows == 2
MaxRowLen == 1
MaxPredLen == 1

(* the value previous_char starts from in map_to_chars *)
NoPrevious == -1

(* code points used in labels: a, e-acute (two UTF-8 bytes), z *)
Alphabet == <<97, 233, 122>>

(* the table file of the runs: one character per line, z is not in it *)
TableFile == <<97, 233>>

BlankChoices == {-1, 0, 1}

(* ------------------------- generic helpers ---------------------------- *)
Max(a, b) == IF a >= b THEN a ELSE b

Min(a, b) == IF a <= b THEN a ELSE b

RECURSIVE Concat(_)
Concat(ss) == IF ss = <<>> THEN <<>> ELSE Head(ss) \o Concat(Tail(ss))

PermsOf(n) ==
  {p \in [1..n -> 1..n] : \A i, j \in 1..n : i # j => p[i] # p[j]}

(* ------------------- strings: str <-> UTF-8 bytes --------------------- *)
\* one code point to its UTF-8 bytes
Utf8Char(cp) ==
  IF cp < 128 THEN <<cp>>
  ELSE IF cp < 2048 THEN <<192 + (cp \div 64), 128 + (cp % 64)>>
  ELSE IF cp < 65536
    THEN <<224 + (cp \div 4096), 128 + ((cp \div 64) % 64), 128 + (cp % 64)>>
  ELSE <<240 + (cp \div 262144), 128 + ((cp \div 4096) % 64),
         128 + ((cp \div 64) % 64), 128 + (cp % 64)>>

\* a Python str handed to TensorFlow becomes its UTF-8 bytes
Utf8Encode(s) == Concat([i \in 1..Len(s) |-> Utf8Char(s[i])])

\* variant: the string is cut at every byte
CharWidth_bytes(lead) == 1

\* number of bytes of the character that starts with this lead byte
CharWidth(lead) ==
  IF lead < 128 THEN 1
  ELSE IF lead < 224 THEN 2
  ELSE IF lead < 240 THEN 3
  ELSE 4

\* tf.strings.unicode_split: the byte string cut into one substring per
\* unicode character
RECURSIVE unicode_split(_)
unicode_split(bytes) ==
  IF bytes = <<>> THEN <<>>
  ELSE LET w == Min(CharWidth(bytes[1]), Len(bytes))
       IN  <<SubSeq(bytes, 1, w)>> \o unicode_split(SubSeq(bytes, w + 1, Len(bytes)))

(* --------------------------- the table -------------------------------- *)
\* variant: lines numbered from 1
lookup_oneBased(tbl, blank, key) ==
  IF \E i \in 1..Len(tbl) : Utf8Char(tbl[i]) = key
    THEN CHOOSE i \in 1..Len(tbl) : Utf8Char(tbl[i]) = key
    ELSE blank

\* StaticHashTable over TextFileInitializer(WHOLE_LINE -> LINE_NUMBER):
\* key = bytes of a line, value = 0-based line number, default_value = blank
lookup(tbl, blank, key) ==
  IF \E i \in 1..Len(tbl) : Utf8Char(tbl[i]) = key
    THEN (CHOOSE i \in 1..Len(tbl) : Utf8Char(tbl[i]) = key) - 1
    ELSE blank

(* ----------------------- ragged -> sparse ----------------------------- *)
RECURSIVE LongestRow(_)
LongestRow(rows) ==
  IF rows = <<>> THEN 0 ELSE Max(Len(Head(rows)), LongestRow(Tail(rows)))

\* variant: a dense tensor, short rows filled with 0
to_sparse_padded(rt) ==
  [indices |-> Concat([i \in 1..Len(rt) |->
                         [j \in 1..LongestRow(rt) |-> <<i - 1, j - 1>>]]),
   values |-> Concat([i \in 1..Len(rt) |->
                        [j \in 1..LongestRow(rt) |->
                           IF j <= Len(rt[i]) THEN rt[i][j] ELSE 0]]),
   dense_shape |-> <<Len(rt), LongestRow(rt)>>]

\* RaggedTensor.to_sparse: entries in row-major order, 0-based indices,
\* dense_shape = [nrows, longest row]
to_sparse(rt) ==
  [indices |-> Concat([i \in 1..Len(rt) |->
                         [j \in 1..Len(rt[i]) |-> <<i - 1, j - 1>>]]),
   values |-> Concat(rt),
   dense_shape |-> <<Len(rt), LongestRow(rt)>>]

\* _convert_label on a batch of label strings
convert_label(tbl, blank, batch) ==
  LET chars == [i \in 1..Len(batch) |-> unicode_split(batch[i])]
      mapped_label == [i \in 1..Len(batch) |->
                         [j \in 1..Len(chars[i]) |-> lookup(tbl, blank, chars[i][j])]]
  IN  to_sparse(mapped_label)

(* ------------------------ sparse -> dense ----------------------------- *)
\* the value stored at 0-based (i, j), or the default when no entry is
SparseAt(sp, i, j, default_value) ==
  IF \E k \in 1..Len(sp.indices) : sp.indices[k] = <<i, j>>
    THEN sp.values[CHOOSE k \in 1..Len(sp.indices) : sp.indices[k] = <<i, j>>]
    ELSE default_value

\* variant: absent positions filled with 0 whatever the default is
to_dense_zeroFill(sp, default_value) ==
  [i \in 1..sp.dense_shape[1] |->
     [j \in 1..sp.dense_shape[2] |-> SparseAt(sp, i - 1, j - 1, 0)]]

\* tf.sparse.to_dense(sp, default_value).numpy(): dense_shape[0] rows of
\* dense_shape[1] ids
to_dense(sp, default_value) ==
  [i \in 1..sp.dense_shape[1] |->
     [j \in 1..sp.dense_shape[2] |-> SparseAt(sp, i - 1, j - 1, default_value)]]

(* -------------------------- map_to_chars ------------------------------ *)
\* table[char_index] on a Python list: -len..-1 index from the end,
\* anything beyond raises IndexError
TableItem(tbl, char_index) ==
  IF char_index >= 0 /\ char_index < Len(tbl)
    THEN [raised |-> FALSE, char |-> tbl[char_index + 1]]
  ELSE IF char_index < 0 /\ char_index >= -Len(tbl)
    THEN [raised |-> FALSE, char |-> tbl[Len(tbl) + char_index + 1]]
  ELSE [raised |-> TRUE, char |-> 0]

\* variant: a blank is skipped before it becomes the previous id
RECURSIVE LineText_blankFirst(_, _, _, _, _, _)
LineText_blankFirst(line, tbl, blank, merge, previous_char, text) ==
  IF line = <<>> THEN [raised |-> FALSE, text |-> text]
  ELSE LET char_index == Head(line)
       IN  IF char_index = blank
             THEN LineText_blankFirst(Tail(line), tbl, blank, merge, previous_char, text)
           ELSE IF merge /\ char_index = previous_char
             THEN LineText_blankFirst(Tail(line), tbl, blank, merge, previous_char, text)
           ELSE LET item == TableItem(tbl, char_index)
                IN  IF item.raised THEN [raised |-> TRUE, text |-> <<>>]
                    ELSE LineText_blankFirst(Tail(line), tbl, blank, merge, char_index,
                                             Append(text, item.char))

\* the inner loop of map_to_chars over the rest of one line
RECURSIVE LineText(_, _, _, _, _, _)
LineText(line, tbl, blank, merge, previous_char, text) ==
  IF line = <<>> THEN [raised |-> FALSE, text |-> text]
  ELSE LET char_index == Head(line)
       IN  IF merge /\ char_index = previous_char
             THEN LineText(Tail(line), tbl, blank, merge, previous_char, text)
           ELSE IF char_index = blank
             THEN LineText(Tail(line), tbl, blank, merge, char_index, text)
           ELSE LET item == TableItem(tbl, char_index)
                IN  IF item.raised THEN [raised |-> TRUE, text |-> <<>>]
                    ELSE LineText(Tail(line), tbl, blank, merge, char_index,
                                  Append(text, item.char))

\* the outer loop: lines collected so far, rows still to decode
RECURSIVE MapLines(_, _, _, _, _)
MapLines(inputs, tbl, blank, merge, lines) ==
  IF inputs = <<>> THEN [raised |-> FALSE, lines |-> lines]
  ELSE LET r == LineText(Head(inputs), tbl, blank, merge, NoPrevious, <<>>)
       IN  IF r.raised THEN [raised |-> TRUE, lines |-> <<>>]
           ELSE MapLines(Tail(inputs), tbl, blank, merge, Append(lines, r.text))

map_to_chars(inputs, tbl, blank, merge) == MapLines(inputs, tbl, blank, merge, <<>>)

\* for y_pred, y in zip(decoded, Y): count the equal pairs
RECURSIVE CountEqual(_, _)
CountEqual(a, b) ==
  IF a = <<>> \/ b = <<>> THEN 0
  ELSE (IF Head(a) = Head(b) THEN 1 ELSE 0) + CountEqual(Tail(a), Tail(b))

\* map_and_count(decoded, Y, mapper, blank_index, merge_repeated), decoded
\* standing for decoded[0]
map_and_count(decoded, Y, mapper, blank, merge) ==
  LET d == map_to_chars(to_dense(decoded, blank), mapper, blank, merge)
  IN  IF d.raised THEN [raised |-> TRUE, count |-> 0]
      ELSE LET y == map_to_chars(to_dense(Y, blank), mapper, blank, merge)
           IN  IF y.raised THEN [raised |-> TRUE, count |-> 0]
               ELSE [raised |-> FALSE, count |-> CountEqual(d.lines, y.lines)]

(* ------------------------- the pipeline ------------------------------- *)
\* the labels of the annotation file, line after line: a, aa, the empty
\* label, z e-acute, e-acute, e-acute a; longer files go round
AnnotatedLabels ==
  <<<<97>>, <<97, 97>>, <<>>, <<122, 233>>, <<233>>, <<233, 97>>>>

\* label of the i-th annotation line
LabelOf(i) == AnnotatedLabels[((i - 1) % Len(AnnotatedLabels)) + 1]

\* tf.data.Dataset.shuffle(buffer_size = size): any order of the samples;
\* without shuffle the annotation order
Orders(n, sh) ==
  IF sh THEN PermsOf(n) ELSE {[i \in 1..n |-> i]}

\* map(_decode_and_resize): decode_jpeg raises on a bad image
decode_and_resize(i) ==
  IF i \in bad THEN [error |-> TRUE]
  ELSE [error |-> FALSE, image |-> i, label |-> Utf8Encode(labels[i])]

\* variant: the batch is closed one element late
RECURSIVE BatchGetNext_oneMore(_, _, _)
BatchGetNext_oneMore(ord, p, acc) ==
  IF Len(acc) = batch_size + 1 \/ p > Len(ord) THEN [elems |-> acc, pos |-> p]
  ELSE LET e == decode_and_resize(ord[p])
       IN  IF e.error THEN BatchGetNext_oneMore(ord, p + 1, acc)
           ELSE BatchGetNext_oneMore(ord, p + 1, Append(acc, e))

\* variant: a sample that fails closes the batch being collected
RECURSIVE BatchGetNext_stopOnError(_, _, _)
BatchGetNext_stopOnError(ord, p, acc) ==
  IF Len(acc) = batch_size \/ p > Len(ord) THEN [elems |-> acc, pos |-> p]
  ELSE LET e == decode_and_resize(ord[p])
       IN  IF e.error THEN [elems |-> acc, pos |-> p + 1]
           ELSE BatchGetNext_stopOnError(ord, p + 1, Append(acc, e))

\* variant: batch before ignore_errors, batch_size samples are pulled and
\* the failed ones taken out of the batch
BatchGetNext_noRefill(ord, p, acc) ==
  LET hi == Min(p + batch_size - 1, Len(ord))
      good == SelectSeq(SubSeq(ord, p, hi), LAMBDA i : i \notin bad)
  IN  [elems |-> [k \in 1..Len(good) |-> decode_and_resize(good[k])],
       pos |-> hi + 1]

\* ignore_errors then batch(batch_size): pull elements from position p of
\* the pass until batch_size good ones are collected or the input ends
RECURSIVE BatchGetNext(_, _, _)
BatchGetNext(ord, p, acc) ==
  IF Len(acc) = batch_size \/ p > Len(ord) THEN [elems |-> acc, pos |-> p]
  ELSE LET e == decode_and_resize(ord[p])
       IN  IF e.error THEN BatchGetNext(ord, p + 1, acc)
           ELSE BatchGetNext(ord, p + 1, Append(acc, e))

\* the batch as the consumer sees it, after map(_convert_label)
Emitted(elems, ep) ==
  [epoch |-> ep,
   images |-> [k \in 1..Len(elems) |-> elems[k].image],
   label |-> convert_label(table, blank_index,
                           [k \in 1..Len(elems) |-> elems[k].label])]

NoCall == [fn |-> "none"]

\* the order of the pass being iterated
order == orders[epoch + 1]

Init ==
  /\ \E n \in 1..MaxSamples :
       /\ labels = [i \in 1..n |-> LabelOf(i)]
       /\ bad \in SUBSET (1..n)
       /\ shuffle \in (IF n <= MaxShuffled THEN BOOLEAN ELSE {FALSE})
       /\ \E o \in Orders(n, shuffle) : orders = <<o>>
  /\ table = TableFile
  /\ blank_index \in BlankChoices
  /\ batch_size \in 1..MaxBatch
  /\ repeat \in 1..MaxRepeat
  /\ pos = 1
  /\ epoch = 0
  /\ out = <<>>
  /\ done = FALSE
  /\ call = NoCall
  /\ ret = NoCall

\* one pull on iter(dataloader()) that yields a batch of the current pass
NextBatch ==
  /\ ~done
  /\ LET cur == BatchGetNext(order, pos, <<>>)
     IN  /\ cur.elems # <<>>
         /\ out' = Append(out, Emitted(cur.elems, epoch))
         /\ pos' = cur.pos
  /\ UNCHANGED <<labels, bad, table, blank_index, batch_size, shuffle, repeat,
                 orders, epoch, done, call, ret>>

\* one pull at the end of a pass with passes left: repeat restarts its
\* input (reshuffled) and yields the first batch of the next pass
NextPass ==
  /\ ~done
  /\ BatchGetNext(order, pos, <<>>).elems = <<>>
  /\ epoch + 1 < repeat
  /\ \E o \in Orders(Len(labels), shuffle) :
       LET nxt == BatchGetNext(o, 1, <<>>)
       IN  /\ nxt.elems # <<>>
           /\ orders' = Append(orders, o)
           /\ epoch' = epoch + 1
           /\ pos' = nxt.pos
           /\ out' = Append(out, Emitted(nxt.elems, epoch + 1))
  /\ UNCHANGED <<labels, bad, table, blank_index, batch_size, shuffle, repeat,
                 done, call, ret>>

\* variant: the first end of the input ends the iteration
EndOfSequence_ignoreRepeat ==
  /\ ~done
  /\ BatchGetNext(order, pos, <<>>).elems = <<>>
  /\ done' = TRUE
  /\ UNCHANGED <<labels, bad, table, blank_index, batch_size, shuffle, repeat,
                 orders, pos, epoch, out, call, ret>>

\* one pull that finds no batch: the last pass is over (or no sample of the
\* data set decodes, and every remaining pass is empty too)
EndOfSequence ==
  /\ ~done
  /\ BatchGetNext(order, pos, <<>>).elems = <<>>
  /\ \/ epoch + 1 >= repeat
     \/ bad = 1..Len(labels)
  /\ done' = TRUE
  /\ UNCHANGED <<labels, bad, table, blank_index, batch_size, shuffle, repeat,
                 orders, pos, epoch, out, call, ret>>

Next == NextBatch \/ NextPass \/ EndOfSequence

Spec == Init /\ [][Next]_vars

(* ------------- calls of the label and text functions ------------------ *)
SeqsUpTo(S, n) == UNION {[1..k -> S] : k \in 0..n}

AlphabetSet == {Alphabet[k] : k \in 1..Len(Alphabet)}

\* label strings (Python str) of at most n characters
LabelStrings(n) == SeqsUpTo(AlphabetSet, n)

\* batches of 1..MaxRows rows, each row drawn from S
Batches(S) == UNION {[1..n -> S] : n \in 1..MaxRows}

Utf8Batch(batch) == [i \in 1..Len(batch) |-> Utf8Encode(batch[i])]

\* one label of up to MaxLabelLen characters, or up to MaxRows labels of
\* up to MaxRowLen characters
ConvertCalls ==
  {[fn |-> "_convert_label", text |-> b, label |-> Utf8Batch(b)] :
     b \in {<<l>> : l \in LabelStrings(MaxLabelLen)}
            \cup Batches(LabelStrings(MaxRowLen))}

\* the ids handed to map_to_chars: the lines of the table and one id
\* beyond them on either side
IdSet == NoPrevious..Len(TableFile)

\* one row of up to MaxLen ids, or up to MaxRows rows of up to MaxRowLen ids
MapToCharsCalls ==
  {[fn |-> "map_to_chars", inputs |-> rows, merge_repeated |-> m] :
     rows \in {<<>>} \cup {<<r>> : r \in SeqsUpTo(IdSet, MaxLen)}
                     \cup Batches(SeqsUpTo(IdSet, MaxRowLen)),
     m \in BOOLEAN}

\* Y: the sparse label of a batch of the loader, the annotation lines
\* s .. s+n-1; decoded: the sparse output of the CTC decoder for that
\* batch, rows of up to MaxPredLen classes of the table
MapAndCountCalls(tbl, blank) ==
  {[fn |-> "map_and_count", decoded |-> to_sparse(p[1]),
    Y |-> convert_label(tbl, blank,
                        Utf8Batch([i \in 1..Len(p[1]) |-> LabelOf(p[2] + i - 1)])),
    merge_repeated |-> m] :
     p \in (UNION {[1..n -> SeqsUpTo(0..(Len(tbl) - 1), MaxPredLen)]
                     : n \in 1..MaxRows}) \X (1..Len(AnnotatedLabels)),
     m \in BOOLEAN}

InitCalls ==
  /\ labels = <<>> /\ bad = {} /\ batch_size = 1 /\ shuffle = FALSE
  /\ repeat = 1 /\ orders = <<<<>>>> /\ pos = 1 /\ epoch = 0 /\ out = <<>>
  /\ done = TRUE
  /\ table = TableFile
  /\ blank_index \in BlankChoices
  /\ call \in ConvertCalls \cup MapToCharsCalls
                \cup MapAndCountCalls(table, blank_index)
  /\ ret = NoCall

ConvertLabelCall ==
  /\ call.fn = "_convert_label" /\ ret = NoCall
  /\ ret' = [fn |-> call.fn, sparse_label |-> convert_label(table, blank_index, call.label)]
  /\ UNCHANGED <<labels, bad, table, blank_index, batch_size, shuffle, repeat,
                 orders, pos, epoch, out, done, call>>

MapToCharsCall ==
  /\ call.fn = "map_to_chars" /\ ret = NoCall
  /\ LET r == map_to_chars(call.inputs, table, blank_index, call.merge_repeated)
     IN  ret' = [fn |-> call.fn, raised |-> r.raised, lines |-> r.lines]
  /\ UNCHANGED <<labels, bad, table, blank_index, batch_size, shuffle, repeat,
                 orders, pos, epoch, out, done, call>>

MapAndCountCall ==
  /\ call.fn = "map_and_count" /\ ret = NoCall
  /\ LET r == map_and_count(call.decoded, call.Y, table, blank_index,
                            call.merge_repeated)
     IN  ret' = [fn |-> call.fn, raised |-> r.raised, count |-> r.count]
  /\ UNCHANGED <<labels, bad, table, blank_index, batch_size, shuffle, repeat,
                 orders, pos, epoch, out, done, call>>

NextCall == ConvertLabelCall \/ MapToCharsCall \/ MapAndCountCall

SpecCalls == InitCalls /\ [][NextCall]_vars

(* ===================== properties of the loader ======================= *)
\* the batches of pass e emitted so far
PassBatches(e) == SelectSeq(out, LAMBDA b : b.epoch = e)

\* pass e has been iterated to its end
PassOver(e) == e < epoch \/ done

BatchSizes(bs) == [k \in 1..Len(bs) |-> Len(bs[k].images)]

\* the samples of all batches, in the order of emission
AllRows(bs) == Concat([k \in 1..Len(bs) |-> bs[k].images])

\* the samples of an order that decode, in that order
Surviving(ord) == SelectSeq(ord, LAMBDA i : i \notin bad)

IsPrefix(s, t) == Len(s) <= Len(t) /\ s = SubSeq(t, 1, Len(s))

\* b repeated floor(n / b) times, then n mod b when that is not zero
FullThenRest(n, b) ==
  [k \in 1..((n + b - 1) \div b) |-> IF k * b <= n THEN b ELSE n % b]

\* C3: in a pass without shuffle every batch holds between 1 and batch_size
\* samples, the batches of a finished pass hold n - f samples in all, and
\* with f = 0 their sizes are b, ..., b and then n mod b when not zero.
C3_BatchSizes ==
  ~shuffle =>
    /\ \A k \in 1..Len(out) :
         Len(out[k].images) >= 1 /\ Len(out[k].images) <= batch_size
    /\ \A e \in 0..epoch :
         PassOver(e) =>
           /\ Len(AllRows(PassBatches(e))) = Len(labels) - Cardinality(bad)
           /\ bad = {} =>
                BatchSizes(PassBatches(e)) = FullThenRest(Len(labels), batch_size)

C3_Witness ==
  /\ done /\ ~shuffle /\ bad = {} /\ Len(labels) = 5 /\ batch_size = 2
  /\ BatchSizes(PassBatches(0)) = <<2, 2, 1>>

\* C4: the rows of the batches of a pass are, in order, exactly the samples
\* of the (post-shuffle) order of that pass that decode: a prefix of them
\* while the pass runs, all of them once it is over.
C4_DroppedIsolation ==
  \A e \in 0..epoch :
    /\ IsPrefix(AllRows(PassBatches(e)), Surviving(orders[e + 1]))
    /\ PassOver(e) => AllRows(PassBatches(e)) = Surviving(orders[e + 1])

\* the fourth of five samples fails
C4_Witness ==
  /\ done /\ Len(labels) = 5 /\ bad = {4} /\ batch_size = 2 /\ repeat = 1
  /\ [k \in 1..Len(out) |-> out[k].images] = <<<<1, 2>>, <<3, 5>>>>

\* position k of a pass falls into nominal group ceil(k / batch_size)
Group(k) == ((k - 1) \div batch_size) + 1

\* C5 as stated: a sample that fails and is not in the last nominal group
\* of the pass leaves its batch with fewer than batch_size samples.
C5_NotRefilled ==
  \A k \in 1..Len(labels) :
    LET bs == PassBatches(epoch)
    IN  (order[k] \in bad /\ Group(k) < Group(Len(labels)) /\ Group(k) <= Len(bs))
          => Len(bs[Group(k)].images) < batch_size

\* C5 (amended): a failed sample is dropped before batching, so batch g of
\* a pass holds the surviving samples number (g-1)*b+1 .. g*b of the pass
\* and every batch that is followed by another batch of the same pass
\* holds exactly batch_size samples.
C5_Refilled ==
  /\ \A e \in 0..epoch : \A g \in 1..Len(PassBatches(e)) :
       LET sv == Surviving(orders[e + 1])
       IN  PassBatches(e)[g].images =
             SubSeq(sv, (g - 1) * batch_size + 1, Min(g * batch_size, Len(sv)))
  /\ \A k \in 1..(Len(out) - 1) :
       out[k].epoch = out[k + 1].epoch => Len(out[k].images) = batch_size

\* a failure in the first nominal group, and a first batch that is full and
\* holds a sample from beyond that group
C5_Witness ==
  /\ batch_size = 2 /\ Len(labels) >= 3 /\ order[1] \in bad
  /\ Len(out) >= 1 /\ out[1].images = <<order[2], order[3]>>

\* the batches of one pass over the annotation order: the surviving samples
\* cut into consecutive runs of b
RECURSIVE Chunks(_, _)
Chunks(s, b) ==
  IF s = <<>> THEN <<>>
  ELSE <<SubSeq(s, 1, Min(b, Len(s)))>> \o Chunks(SubSeq(s, Min(b, Len(s)) + 1, Len(s)), b)

RECURSIVE Replay(_, _)
Replay(s, r) == IF r = 0 THEN <<>> ELSE s \o Replay(s, r - 1)

\* C10: with shuffle off the batches emitted are a prefix of the one-pass
\* batch sequence replayed repeat times, batch k belonging to pass
\* (k-1) div (batches per pass), and they are all of it when iteration ends.
C10_Replay ==
  ~shuffle =>
    LET onePass == Chunks(Surviving([i \in 1..Len(labels) |-> i]), batch_size)
        rows == [k \in 1..Len(out) |-> out[k].images]
    IN  /\ IsPrefix(rows, Replay(onePass, repeat))
        /\ \A k \in 1..Len(out) : out[k].epoch = (k - 1) \div Len(onePass)
        /\ done => rows = Replay(onePass, repeat)

C10_Witness ==
  /\ done /\ ~shuffle /\ repeat = 2 /\ batch_size = 2 /\ Len(labels) = 4
  /\ bad = {2}
  /\ [k \in 1..Len(out) |-> out[k].images] = <<<<1, 3>>, <<4>>, <<1, 3>>, <<4>>>>

(* ============ properties of the label and text functions ============== *)
InTable(cp) == \E k \in 1..Len(table) : table[k] = cp

\* 0-based line of a character of the table file
LineNo(cp) == (CHOOSE k \in 1..Len(table) : table[k] = cp) - 1

\* the ids stored for 0-based row i of a sparse tensor, by position
SparseRow(sp, i) ==
  LET ks == SelectSeq([k \in 1..Len(sp.indices) |-> k],
                      LAMBDA k : sp.indices[k][1] = i)
  IN  [n \in 1..Len(ks) |-> sp.values[ks[n]]]

Converted == ret.fn = "_convert_label"

\* decoding the ids encoded for label i gives label i back
RoundTrips(i) ==
  LET r == map_to_chars(<<SparseRow(ret.sparse_label, i - 1)>>, table,
                        blank_index, FALSE)
  IN  ~r.raised /\ r.lines = <<call.text[i]>>

\* C1 as stated: every label made of table characters survives encoding
\* and decoding with merge_repeated = False, whatever blank_index is.
C1_RoundTripAnyBlank ==
  Converted =>
    \A i \in 1..Len(call.text) :
      (\A j \in 1..Len(call.text[i]) : InTable(call.text[i][j])) => RoundTrips(i)

\* C1 (amended): a label made of table characters, none of which is the
\* character on line blank_index of the table, survives encoding and
\* decoding with merge_repeated = False.
C1_RoundTrip ==
  Converted =>
    \A i \in 1..Len(call.text) :
      (\A j \in 1..Len(call.text[i]) :
          InTable(call.text[i][j]) /\ LineNo(call.text[i][j]) # blank_index)
        => RoundTrips(i)

C1_Witness ==
  /\ Converted /\ blank_index = 0 /\ call.text = <<<<233, 233>>>>
  /\ ret.sparse_label.values = <<1, 1>>

\* C7: the ids of a label are as many as its unicode characters; the j-th
\* is the line number of the j-th character when the table has it and
\* blank_index otherwise.
C7_Encoding ==
  Converted =>
    \A i \in 1..Len(call.text) :
      LET ids == SparseRow(ret.sparse_label, i - 1)
      IN  /\ Len(ids) = Len(call.text[i])
          /\ \A j \in 1..Len(ids) :
               ids[j] = IF InTable(call.text[i][j]) THEN LineNo(call.text[i][j])
                        ELSE blank_index

C7_Witness ==
  /\ Converted /\ blank_index = 1 /\ call.text = <<<<97, 122, 233>>>>
  /\ ret.sparse_label.values = <<0, 1, 1>>

\* C6: the sparse label of a batch of N labels has dense shape
\* [N, longest label], holds an entry at (i, j) exactly when j is below the
\* length of label i, each once, and that entry is the j-th id of label i.
C6_SparseLabel ==
  Converted =>
    LET sp == ret.sparse_label
        n == Len(call.text)
        maxLen == LongestRow(call.text)
    IN  /\ sp.dense_shape = <<n, maxLen>>
        /\ Len(sp.indices) = Len(sp.values)
        /\ \A k, l \in 1..Len(sp.indices) : sp.indices[k] = sp.indices[l] => k = l
        /\ \A k \in 1..Len(sp.indices) :
             /\ sp.indices[k][1] \in 0..(n - 1)
             /\ sp.indices[k][2] \in 0..(Len(call.text[sp.indices[k][1] + 1]) - 1)
        /\ \A i \in 0..(n - 1) : \A j \in 0..(Len(call.text[i + 1]) - 1) :
             /\ \E k \in 1..Len(sp.indices) : sp.indices[k] = <<i, j>>
             /\ LET cp == call.text[i + 1][j + 1]
                IN  sp.values[CHOOSE k \in 1..Len(sp.indices) : sp.indices[k] = <<i, j>>]
                      = IF InTable(cp) THEN LineNo(cp) ELSE blank_index

\* a batch with an empty label before a label of one character
C6_Witness ==
  /\ Converted /\ blank_index = 0 /\ call.text = <<<<>>, <<233>>>>
  /\ ret.sparse_label.dense_shape = <<2, 1>>
  /\ ret.sparse_label.indices = <<<<1, 0>>>>
  /\ ret.sparse_label.values = <<1>>

\* every run of adjacent equal ids cut down to one id
RECURSIVE Collapse(_)
Collapse(s) ==
  IF Len(s) <= 1 THEN s
  ELSE IF s[1] = s[2] THEN Collapse(Tail(s))
  ELSE <<s[1]>> \o Collapse(Tail(s))

\* an id that has a line in the table, or the blank
KnownId(id, tbl, blank) == id = blank \/ id \in 0..(Len(tbl) - 1)

\* the characters of a row: runs collapsed first, blanks removed then
CollapsedText(row, tbl, blank) ==
  LET kept == SelectSeq(Collapse(row), LAMBDA id : id # blank)
  IN  [k \in 1..Len(kept) |-> tbl[kept[k] + 1]]

\* a table with six lines for the examples with id 5: _ a b c d e
ExampleTable == <<95, 97, 98, 99, 100, 101>>

\* C2: with merge_repeated = True the text of a row of table ids and blanks
\* is that of the row with every run of adjacent equal ids collapsed to one
\* id and the blanks removed after that; [5,5,5] gives one character and
\* [5,0,5] with blank 0 gives two.
C2_MergeRepeated ==
  /\ (ret.fn = "map_to_chars" /\ call.merge_repeated
        /\ \A i \in 1..Len(call.inputs) : \A j \in 1..Len(call.inputs[i]) :
             KnownId(call.inputs[i][j], table, blank_index))
       => /\ ~ret.raised
          /\ ret.lines = [i \in 1..Len(call.inputs) |->
                            CollapsedText(call.inputs[i], table, blank_index)]
  /\ map_to_chars(<<<<5, 5, 5>>, <<5, 0, 5>>>>, ExampleTable, 0, TRUE).lines
       = <<<<101>>, <<101, 101>>>>

\* [a, a, blank, a] read as [a, blank, a]
C2_Witness ==
  /\ ret.fn = "map_to_chars" /\ call.merge_repeated /\ blank_index = 0
  /\ call.inputs = <<<<1, 1, 0, 1>>>>
  /\ ret.lines = <<<<233, 233>>>>

\* a row of ids filled up to m ids
Padded(ids, m, fill) == [j \in 1..m |-> IF j <= Len(ids) THEN ids[j] ELSE fill]

\* the text map_to_chars gives 0-based row i of a sparse tensor filled with
\* blank_index
RowText(sp, i) ==
  map_to_chars(<<Padded(SparseRow(sp, i), sp.dense_shape[2], blank_index)>>,
               table, blank_index, call.merge_repeated).lines[1]

\* C8: map_and_count counts the rows whose prediction text equals the
\* ground-truth text, both sides filled with blank_index and decoded with
\* the same blank_index and merge_repeated; the example of the
\* specification counts 1.
C8_ExactMatchCount ==
  /\ ret.fn = "map_and_count" =>
       /\ ~ret.raised
       /\ ret.count =
            Cardinality({i \in 0..(Min(call.decoded.dense_shape[1],
                                       call.Y.dense_shape[1]) - 1) :
                           RowText(call.decoded, i) = RowText(call.Y, i)})
  /\ map_and_count(to_sparse(<<<<1, 2, 0>>, <<3, 0, 0>>>>),
                   to_sparse(<<<<1, 2, 0>>, <<3, 3, 0>>>>),
                   <<95, 97, 98, 99>>, 0, FALSE)
       = [raised |-> FALSE, count |-> 1]

\* "a" against "aa" without merging, next to a row that matches
C8_Witness ==
  /\ ret.fn = "map_and_count" /\ ~call.merge_repeated /\ blank_index = -1
  /\ to_dense(call.decoded, blank_index) = <<<<0>>, <<0>>>>
  /\ to_dense(call.Y, blank_index) = <<<<0, -1>>, <<0, 0>>>>
  /\ ret.count = 1

\* the text of a row when an id without a line in the table gives nothing
LenientText(row, tbl, blank, merge) ==
  LET kept == SelectSeq(IF merge THEN Collapse(row) ELSE row,
                        LAMBDA id : id # blank /\ id \in 0..(Len(tbl) - 1))
  IN  [k \in 1..Len(kept) |-> tbl[kept[k] + 1]]

\* C9: map_to_chars never raises; an id that is neither the blank nor a
\* line of the table contributes nothing and the rest is decoded.
C9_NeverRaises ==
  ret.fn = "map_to_chars" =>
    /\ ~ret.raised
    /\ ret.lines = [i \in 1..Len(call.inputs) |->
                      LenientText(call.inputs[i], table, blank_index,
                                  call.merge_repeated)]

====
